---------------------------- MODULE Spec2Model ----------------------------
(***************************************************************************)
(* Model of crashpad's HTTPMultipartBuilder                                *)
(* (util/net/http_multipart_builder.cc).                                   *)
(*                                                                         *)
(* A std::string is a sequence of one-character strings.  The literal      *)
(* pieces of the printf formats, which hold no CR, LF, double quote or     *)
(* percent, are kept as single multi-character elements.  A base::FilePath *)
(* is an opaque string.                                                    *)
(***************************************************************************)
EXTENDS Naturals, Sequences, FiniteSets

VARIABLES
    boundary_,          \* HTTPMultipartBuilder::boundary_
    form_data_,         \* HTTPMultipartBuilder::form_data_: key -> value
    file_attachments_,  \* HTTPMultipartBuilder::file_attachments_: key -> FileAttachment
    stream,             \* the segments of the stream GetBodyStream last returned (<<>>: none yet)
    terminated,         \* a CHECK failed: the process is gone
    calls               \* history: the keys the setters were called with so far

vars == <<boundary_, form_data_, file_attachments_, stream, terminated, calls>>

-----------------------------------------------------------------------------
(* Characters *)

CR == "\r"
LF == "\n"
DQUOTE == "\""
PERCENT == "%"

\* The character 0x60, which a TLA+ string cannot hold.
Backtick == "<0x60>"

\* The printable ASCII characters, 0x20 to 0x7e, in code order.
Printable ==
    <<" ", "!", "\"", "#", "$", "%", "&", "'", "(", ")", "*", "+", ",", "-", ".", "/",
      "0", "1", "2", "3", "4", "5", "6", "7", "8", "9", ":", ";", "<", "=", ">", "?",
      "@", "A", "B", "C", "D", "E", "F", "G", "H", "I", "J", "K", "L", "M", "N", "O",
      "P", "Q", "R", "S", "T", "U", "V", "W", "X", "Y", "Z", "[", "\\", "]", "^", "_",
      Backtick, "a", "b", "c", "d", "e", "f", "g", "h", "i", "j", "k", "l", "m", "n", "o",
      "p", "q", "r", "s", "t", "u", "v", "w", "x", "y", "z", "{", "|", "}", "~">>

\* The values of the characters.
CharCodes ==
    [c \in {CR, LF} \cup {Printable[i] : i \in 1..Len(Printable)} |->
        IF c = CR THEN 13
        ELSE IF c = LF THEN 10
        ELSE 31 + (CHOOSE i \in 1..Len(Printable) : Printable[i] = c)]

\* The value of a char.
CharCode(c) == CharCodes[c]

HexDigits ==
    <<"0", "1", "2", "3", "4", "5", "6", "7", "8", "9", "a", "b", "c", "d", "e", "f">>

\* base::StringPrintf("%%%02x", character), for a character of value 0..255.
StringPrintfPercent02x(character) ==
    <<PERCENT,
      HexDigits[(CharCode(character) \div 16) + 1],
      HexDigits[(CharCode(character) % 16) + 1]>>

kCRLF == <<CR, LF>>

kBoundaryCRLF == <<CR, LF, CR, LF>>

-----------------------------------------------------------------------------
(* GenerateBoundaryString *)

kCharacters ==
    <<"0", "1", "2", "3", "4", "5", "6", "7", "8", "9",
      "A", "B", "C", "D", "E", "F", "G", "H", "I", "J", "K", "L", "M",
      "N", "O", "P", "Q", "R", "S", "T", "U", "V", "W", "X", "Y", "Z",
      "a", "b", "c", "d", "e", "f", "g", "h", "i", "j", "k", "l", "m",
      "n", "o", "p", "q", "r", "s", "t", "u", "v", "w", "x", "y", "z">>

\* The number of random characters of a boundary.
kBoundaryRandomLength == 32

\* The draws of base::RandGenerator(62) the model follows: every draw of one
\* construction gives the same value, the lowest or the highest.
RandomValues == {0, Len(kCharacters) - 1}

GenerateBoundaryString(random_value) ==
    <<"---MultipartBoundary-">>
        \o [index \in 1..kBoundaryRandomLength |-> kCharacters[random_value + 1]]
        \o <<"---">>

-----------------------------------------------------------------------------
(* EncodeMIMEField, GetFormDataBoundary, AssertSafeMIMEType *)

\* The version of Blink, which leaves '%' alone.
RECURSIVE EncodeMIMEFieldBlink(_)
EncodeMIMEFieldBlink(name) ==
    IF name = <<>> THEN <<>>
    ELSE LET character == Head(name) IN
         (IF character \in {CR, LF, DQUOTE}
          THEN StringPrintfPercent02x(character)
          ELSE <<character>>) \o EncodeMIMEFieldBlink(Tail(name))

RECURSIVE EncodeMIMEField(_)
EncodeMIMEField(name) ==
    IF name = <<>> THEN <<>>
    ELSE LET character == Head(name) IN
         (IF character \in {CR, LF, DQUOTE, PERCENT}
          THEN StringPrintfPercent02x(character)
          ELSE <<character>>) \o EncodeMIMEField(Tail(name))

GetFormDataBoundary(boundary, name) ==
    <<"--">> \o boundary \o kCRLF
        \o <<"Content-Disposition: form-data; name=", DQUOTE>>
        \o EncodeMIMEField(name) \o <<DQUOTE>>

Between(c, lo, hi) == CharCode(c) >= CharCode(lo) /\ CharCode(c) <= CharCode(hi)

\* A check that forgets the upper end of the digits' range.
AssertSafeMIMETypeLoose(string) ==
    \A i \in 1..Len(string) :
        LET c == string[i] IN
            \/ Between(c, "a", "z")
            \/ Between(c, "A", "Z")
            \/ CharCode(c) >= CharCode("0") /\ CharCode(c) <= CharCode(";")
            \/ c = "/"
            \/ c = "."
            \/ c = "_"
            \/ c = "+"
            \/ c = "-"

\* TRUE when every CHECK passes, FALSE when one fails.
AssertSafeMIMEType(string) ==
    \A i \in 1..Len(string) :
        LET c == string[i] IN
            \/ Between(c, "a", "z")
            \/ Between(c, "A", "Z")
            \/ Between(c, "0", "9")
            \/ c = "/"
            \/ c = "."
            \/ c = "_"
            \/ c = "+"
            \/ c = "-"

kDefaultContentType ==
    <<"a", "p", "p", "l", "i", "c", "a", "t", "i", "o", "n", "/",
      "o", "c", "t", "e", "t", "-", "s", "t", "r", "e", "a", "m">>

-----------------------------------------------------------------------------
(* The inputs the callers pass *)

Keys ==
    { <<"n", "a", "m", "e">>,
      <<CR, LF, DQUOTE, PERCENT>> }

Values ==
    { <<"v", "a", "l", "u", "e">>,
      <<DQUOTE, PERCENT, CR, LF>> }

\* One file name is also a key; the other is the escaped text of a key.
UploadFileNames ==
    { <<"n", "a", "m", "e">>,
      <<PERCENT, "0", "d", PERCENT, "0", "a", PERCENT, "2", "2", PERCENT, "2", "5">> }

Paths == {"/path/one", "/path/two"}

SafeContentTypes == { <<"a", "Z", "9", "/", ".", "_", "+", "-">> }

UnsafeContentTypes == { <<"a", CR, LF>>, <<"a", "/", ":">> }

ContentTypes == {<<>>} \cup SafeContentTypes \cup UnsafeContentTypes

-----------------------------------------------------------------------------
(* The maps *)

\* std::map find and erase.
Erase(map, key) == [k \in DOMAIN map \ {key} |-> map[k]]

\* std::map operator[] followed by an assignment.
Assign(map, key, value) ==
    [k \in DOMAIN map \cup {key} |-> IF k = key THEN value ELSE map[k]]

EraseKey(key) ==
    [form_data_ |-> Erase(form_data_, key),
     file_attachments_ |-> Erase(file_attachments_, key)]

\* The number of setter calls a run of the model makes.
MaxCalls == 3

\* The history of the setters' calls: how many there were, which keys were set
\* as a field and which as an attachment, and whether the keys were pairwise
\* distinct (the sets are dropped once they are not).
Called(kind, key) ==
    IF ~calls.distinct \/ key \in calls.fields \cup calls.attachments
    THEN [count |-> calls.count + 1, fields |-> {}, attachments |-> {},
          distinct |-> FALSE]
    ELSE IF kind = "field"
    THEN [calls EXCEPT !.count = @ + 1, !.fields = @ \cup {key}]
    ELSE [calls EXCEPT !.count = @ + 1, !.attachments = @ \cup {key}]

-----------------------------------------------------------------------------
(* The streams of util/net/http_body.h: each holds its own copy of what it is
   constructed from. *)

StringHTTPBodyStream(string) == [type |-> "string", string |-> string]

FileHTTPBodyStream(path) == [type |-> "file", path |-> path]

CompositeHTTPBodyStream(parts) == parts

-----------------------------------------------------------------------------
(* Operations *)

Init ==
    /\ \E random_value \in RandomValues :
           boundary_ = GenerateBoundaryString(random_value)
    /\ form_data_ = [k \in {} |-> <<>>]
    /\ file_attachments_ = [k \in {} |-> <<>>]
    /\ stream = <<>>
    /\ terminated = FALSE
    /\ calls = [count |-> 0, fields |-> {}, attachments |-> {}, distinct |-> TRUE]

\* A setter that releases the stream handed out before.
SetFormDataReleasingStream(key, value) ==
    /\ ~terminated
    /\ calls.count < MaxCalls
    /\ LET erased == EraseKey(key) IN
           /\ form_data_' = Assign(erased.form_data_, key, value)
           /\ file_attachments_' = erased.file_attachments_
    /\ calls' = Called("field", key)
    /\ stream' = <<>>
    /\ UNCHANGED <<boundary_, terminated>>

SetFormData(key, value) ==
    /\ ~terminated
    /\ calls.count < MaxCalls
    /\ LET erased == EraseKey(key) IN
           /\ form_data_' = Assign(erased.form_data_, key, value)
           /\ file_attachments_' = erased.file_attachments_
    /\ calls' = Called("field", key)
    /\ UNCHANGED <<boundary_, stream, terminated>>

SetFileAttachment(key, upload_file_name, path, content_type) ==
    /\ ~terminated
    /\ calls.count < MaxCalls
    /\ LET erased == EraseKey(upload_file_name)
           attachment ==
               [filename |-> EncodeMIMEField(upload_file_name),
                path |-> path,
                content_type |-> IF content_type = <<>>
                                 THEN kDefaultContentType
                                 ELSE content_type]
       IN  IF content_type # <<>> /\ ~AssertSafeMIMEType(content_type)
           THEN \* the CHECK fails after EraseKey has run
                /\ form_data_' = erased.form_data_
                /\ file_attachments_' = erased.file_attachments_
                /\ terminated' = TRUE
                /\ calls' = [calls EXCEPT !.count = @ + 1]
           ELSE /\ form_data_' = erased.form_data_
                /\ file_attachments_' =
                       Assign(erased.file_attachments_, key, attachment)
                /\ calls' = Called("attachment", key)
                /\ UNCHANGED terminated
    /\ UNCHANGED <<boundary_, stream>>

\* The orders in which a range-based for may visit the keys of a map.
IterationOrders(keys) ==
    { order \in [1..Cardinality(keys) -> keys] :
        \A i, j \in 1..Cardinality(keys) : i # j => order[i] # order[j] }

\* A field whose value is escaped like its name.
fieldEscapingValue(key) ==
    GetFormDataBoundary(boundary_, key) \o kBoundaryCRLF
        \o EncodeMIMEField(form_data_[key]) \o kCRLF

\* The local |field| of the first loop.
field(key) ==
    GetFormDataBoundary(boundary_, key) \o kBoundaryCRLF \o form_data_[key] \o kCRLF

\* A header that escapes the stored file name once more.
headerEncodingTwice(key) ==
    GetFormDataBoundary(boundary_, key)
        \o <<"; filename=", DQUOTE>>
        \o EncodeMIMEField(file_attachments_[key].filename)
        \o <<DQUOTE>> \o kCRLF
        \o <<"Content-Type: ">> \o file_attachments_[key].content_type
        \o kBoundaryCRLF

\* The local |header| of the second loop.
header(key) ==
    GetFormDataBoundary(boundary_, key)
        \o <<"; filename=", DQUOTE>> \o file_attachments_[key].filename
        \o <<DQUOTE>> \o kCRLF
        \o <<"Content-Type: ">> \o file_attachments_[key].content_type
        \o kBoundaryCRLF

FormDataStreams(order) ==
    [i \in 1..Len(order) |-> StringHTTPBodyStream(field(order[i]))]

FileAttachmentStreams(order) ==
    [i \in 1..(3 * Len(order)) |->
        LET key == order[((i - 1) \div 3) + 1] IN
            CASE (i - 1) % 3 = 0 -> StringHTTPBodyStream(header(key))
              [] (i - 1) % 3 = 1 -> FileHTTPBodyStream(file_attachments_[key].path)
              [] OTHER -> StringHTTPBodyStream(kCRLF)]

ClosingStream ==
    StringHTTPBodyStream(<<"--">> \o boundary_ \o <<"--">> \o kCRLF)

\* The loops in the other order: files before fields.
streamsFilesFirst(form_order, file_order) ==
    FileAttachmentStreams(file_order)
        \o FormDataStreams(form_order)
        \o <<ClosingStream>>

\* The vector |streams| when the loops visit the maps in the given orders.
streams(form_order, file_order) ==
    FormDataStreams(form_order)
        \o FileAttachmentStreams(file_order)
        \o <<ClosingStream>>

GetBodyStream ==
    /\ ~terminated
    /\ \E form_order \in IterationOrders(DOMAIN form_data_),
          file_order \in IterationOrders(DOMAIN file_attachments_) :
           stream' = CompositeHTTPBodyStream(streams(form_order, file_order))
    /\ UNCHANGED <<boundary_, form_data_, file_attachments_, terminated, calls>>

Next ==
    \/ \E key \in Keys, value \in Values : SetFormData(key, value)
    \/ \E key \in Keys, upload_file_name \in UploadFileNames,
          path \in Paths, content_type \in ContentTypes :
           SetFileAttachment(key, upload_file_name, path, content_type)
    \/ GetBodyStream

Spec == Init /\ [][Next]_vars

-----------------------------------------------------------------------------
(* What the specification says of the text, written out independently of the
   code's definitions above *)

FormKeys == DOMAIN form_data_

FileKeys == DOMAIN file_attachments_

Range(seq) == {seq[i] : i \in 1..Len(seq)}

IsPrefix(prefix, text) ==
    Len(prefix) <= Len(text) /\ SubSeq(text, 1, Len(prefix)) = prefix

Escaped(c) ==
    CASE c = CR -> <<"%", "0", "d">>
      [] c = LF -> <<"%", "0", "a">>
      [] c = DQUOTE -> <<"%", "2", "2">>
      [] c = PERCENT -> <<"%", "2", "5">>
      [] OTHER -> <<c>>

RECURSIVE EscapedText(_)
EscapedText(text) ==
    IF text = <<>> THEN <<>> ELSE Escaped(Head(text)) \o EscapedText(Tail(text))

\* `--{boundary}\r\n`
BoundaryLine == <<"--">> \o boundary_ \o <<CR, LF>>

\* `--{boundary}--\r\n`
ClosingText == <<"--">> \o boundary_ \o <<"--", CR, LF>>

\* `Content-Disposition: form-data; name="{escaped key}"`
FieldDisposition(key) ==
    <<"Content-Disposition: form-data; name=", DQUOTE>>
        \o EscapedText(key) \o <<DQUOTE>>

\* `Content-Disposition: form-data; name="{escaped key}"; filename="{file name}"`
FileDisposition(key, escaped_file_name) ==
    FieldDisposition(key)
        \o <<"; filename=", DQUOTE>> \o escaped_file_name \o <<DQUOTE>>

FieldPartText(key, value) ==
    BoundaryLine \o FieldDisposition(key) \o <<CR, LF, CR, LF>> \o value \o <<CR, LF>>

FileHeaderText(key, escaped_file_name, content_type) ==
    BoundaryLine \o FileDisposition(key, escaped_file_name) \o <<CR, LF>>
        \o <<"Content-Type: ">> \o content_type \o <<CR, LF, CR, LF>>

ApplicationOctetStream ==
    <<"a", "p", "p", "l", "i", "c", "a", "t", "i", "o", "n", "/",
      "o", "c", "t", "e", "t", "-", "s", "t", "r", "e", "a", "m">>

\* [A-Za-z0-9/._+-]
SafeCharacters ==
    { "a", "b", "c", "d", "e", "f", "g", "h", "i", "j", "k", "l", "m",
      "n", "o", "p", "q", "r", "s", "t", "u", "v", "w", "x", "y", "z",
      "A", "B", "C", "D", "E", "F", "G", "H", "I", "J", "K", "L", "M",
      "N", "O", "P", "Q", "R", "S", "T", "U", "V", "W", "X", "Y", "Z",
      "0", "1", "2", "3", "4", "5", "6", "7", "8", "9",
      "/", ".", "_", "+", "-" }

IsString(segment, text) == segment.type = "string" /\ segment.string = text

IsFile(segment, path) == segment.type = "file" /\ segment.path = path

\* A segment that opens a part: a text that starts with `--{boundary}\r\n`.
OpensPart(segment) ==
    segment.type = "string" /\ IsPrefix(BoundaryLine, segment.string)

\* The header line of a part: what follows `--{boundary}\r\n`, up to the next
\* carriage return.
HeaderLine(text) ==
    LET from == Len(BoundaryLine) + 1
        to == CHOOSE i \in from..Len(text) :
                  /\ text[i] = CR
                  /\ \A j \in from..(i - 1) : text[j] # CR
    IN  SubSeq(text, from, to - 1)

\* The parts of a body that are form fields, and those that are files.
FieldParts(body) ==
    { i \in 1..Len(body) :
        OpensPart(body[i]) /\ "; filename=" \notin Range(body[i].string) }

FileParts(body) ==
    { i \in 1..Len(body) :
        OpensPart(body[i]) /\ "; filename=" \in Range(body[i].string) }

Closings(body) == { i \in 1..Len(body) : IsString(body[i], ClosingText) }

\* The Content-Disposition blocks of a body whose name is the key.
BlocksNamed(body, key) ==
    { i \in 1..Len(body) :
        /\ body[i].type = "string"
        /\ IsPrefix(BoundaryLine \o FieldDisposition(key), body[i].string) }

\* What is stored under a key: its field and its attachment, if any.
Entry(key) ==
    [field |-> IF key \in FormKeys THEN <<form_data_[key]>> ELSE <<>>,
     attachment |-> IF key \in FileKeys THEN <<file_attachments_[key]>> ELSE <<>>]

\* A step in which a setter was called, and one in which it also returned.
SetterCalled == calls'.count = calls.count + 1

SetterReturned == SetterCalled /\ ~terminated'

-----------------------------------------------------------------------------
(* The claims *)

\* C1: in every reachable state no key is both in the form-field collection
\* and in the file-attachment collection.
C1_KeyUniqueness == FormKeys \cap FileKeys = {}

\* After a setter for the key: one entry, of the given kind, and every body
\* GetBodyStream can produce has one Content-Disposition block of that name.
HoldsOnly(key, kind) ==
    /\ IF kind = "field"
       THEN key \in FormKeys /\ key \notin FileKeys
       ELSE key \in FileKeys /\ key \notin FormKeys
    /\ \A form_order \in IterationOrders(FormKeys),
          file_order \in IterationOrders(FileKeys) :
           Cardinality(BlocksNamed(streams(form_order, file_order), key)) = 1

\* C2: a key set with SetFormData and then with SetFileAttachment, or the
\* other way round, has exactly one entry, of the kind of the later call, and
\* the body has exactly one Content-Disposition block of that name.
C2_LastWriteWins ==
    [][ /\ \A key \in Keys, value \in Values :
               (key \in FileKeys /\ SetFormData(key, value))
                   => HoldsOnly(key, "field")'
        /\ \A key \in Keys, upload_file_name \in UploadFileNames,
              path \in Paths, content_type \in ContentTypes :
               (/\ key \in FormKeys
                /\ SetFileAttachment(key, upload_file_name, path, content_type)
                /\ ~terminated')
                   => HoldsOnly(key, "attachment")' ]_vars

\* C3: after setter calls with pairwise distinct keys, GetBodyStream emits one
\* part for each field set, one for each attachment set, and one closing
\* segment.
C3_PartCount ==
    [][ (GetBodyStream /\ calls.distinct)
            => /\ Cardinality(FieldParts(stream')) = Cardinality(calls.fields)
               /\ Cardinality(FileParts(stream')) = Cardinality(calls.attachments)
               /\ Cardinality(Closings(stream')) = 1 ]_vars

\* The body is the field parts, then the attachments' three segments each, then
\* the closing segment, and nothing else.
Framed ==
    LET nf == Cardinality(FormKeys)
        na == Cardinality(FileKeys)
    IN  /\ Len(stream) = nf + 3 * na + 1
        /\ FieldParts(stream) = 1..nf
        /\ FileParts(stream) = { nf + 3 * j + 1 : j \in 0..(na - 1) }
        /\ \A i \in FileParts(stream) :
               stream[i + 1].type = "file" /\ IsString(stream[i + 2], <<CR, LF>>)
        /\ Closings(stream) = {Len(stream)}
        /\ (nf = 0 /\ na = 0) => stream = <<[type |-> "string", string |-> ClosingText]>>

\* C4: the segments GetBodyStream produces are all the field parts, then all
\* the attachment parts, then one closing segment `--{boundary}--\r\n`; every
\* part begins with `--{boundary}\r\n`; an empty builder gives the closing
\* segment alone.
C4_SegmentOrder == [][GetBodyStream => Framed']_vars

C4_Witness ==
    /\ Len(stream) = 5
    /\ FieldParts(stream) = {1}
    /\ FileParts(stream) = {2}
    /\ FormKeys # {} /\ FileKeys # {}

\* The header lines GetBodyStream must emit for the builder's entries.
ExpectedHeaderLines ==
    { FieldDisposition(key) : key \in FormKeys }
        \cup { FileDisposition(key, file_attachments_[key].filename) : key \in FileKeys }

EmittedHeaderLines ==
    { HeaderLine(stream[i].string) : i \in FieldParts(stream) \cup FileParts(stream) }

\* C5: the name="..." and filename="..." values GetBodyStream emits are the key
\* and the upload file name with CR, LF, double quote and percent replaced by
\* %0d, %0a, %22 and %25 and nothing else changed; so the header line, up to
\* its carriage return, holds no CR, LF or double quote of theirs, and the
\* escaped text of a file name is that of no other key or file name.
C5_Escaping ==
    [][ /\ GetBodyStream => (EmittedHeaderLines = ExpectedHeaderLines)'
        /\ SetterReturned =>
           \A key \in Keys, upload_file_name \in UploadFileNames,
              path \in Paths, content_type \in ContentTypes :
               SetFileAttachment(key, upload_file_name, path, content_type)
                   => /\ file_attachments_'[key].filename = EscapedText(upload_file_name)
                      /\ \A other \in (Keys \cup UploadFileNames) \ {upload_file_name} :
                             EncodeMIMEField(other) # file_attachments_'[key].filename ]_vars

C5_Witness ==
    /\ FileParts(stream) # {}
    /\ \E i \in FieldParts(stream) \cup FileParts(stream) :
           HeaderLine(stream[i].string) =
               FileDisposition(<<CR, LF, DQUOTE, PERCENT>>,
                               <<"%", "2", "5", "0", "d", "%", "2", "5", "0", "a",
                                 "%", "2", "5", "2", "2", "%", "2", "5", "2", "5">>)

\* Every attachment held has a non-empty content type of safe characters.
StoredContentTypesSafe ==
    \A key \in FileKeys :
        /\ file_attachments_[key].content_type # <<>>
        /\ Range(file_attachments_[key].content_type) \subseteq SafeCharacters

\* C6: SetFileAttachment with an empty contentType stores
\* application/octet-stream; with one that holds a character outside
\* [A-Za-z0-9/._+-] it terminates and stores no attachment; otherwise it stores
\* contentType as given.  So every attachment held has a non-empty content
\* type of safe characters.
C6_ContentType ==
    /\ []StoredContentTypesSafe
    /\ [][ SetterCalled =>
           \A key \in Keys, upload_file_name \in UploadFileNames,
              path \in Paths, content_type \in ContentTypes :
               SetFileAttachment(key, upload_file_name, path, content_type)
                   => IF content_type = <<>>
                      THEN /\ ~terminated'
                           /\ file_attachments_'[key].content_type = ApplicationOctetStream
                      ELSE IF Range(content_type) \subseteq SafeCharacters
                      THEN /\ ~terminated'
                           /\ file_attachments_'[key].content_type = content_type
                      ELSE /\ terminated'
                           /\ \A k \in DOMAIN file_attachments_' :
                                  /\ k \in FileKeys
                                  /\ file_attachments_'[k] = file_attachments_[k] ]_vars

C6_Witness ==
    /\ terminated
    /\ \E k1, k2 \in FileKeys :
           /\ file_attachments_[k1].content_type = ApplicationOctetStream
           /\ file_attachments_[k2].content_type \in SafeContentTypes

FieldLayout ==
    /\ \A key \in FormKeys :
           Cardinality({ i \in 1..Len(stream) :
               IsString(stream[i], FieldPartText(key, form_data_[key])) }) = 1
    /\ \A key \in FormKeys :
           (FormKeys = {key} /\ FileKeys = {})
               => stream = <<[type |-> "string",
                              string |-> FieldPartText(key, form_data_[key])],
                             [type |-> "string", string |-> ClosingText]>>

\* C8: for every field (key, value) held, GetBodyStream emits the text
\* `--{boundary}\r\nContent-Disposition: form-data; name="{escaped key}"\r\n\r\n{value}\r\n`
\* with the value as it is; a builder holding one field and nothing else gives
\* that part and then `--{boundary}--\r\n`.
C8_FieldLayout == [][GetBodyStream => FieldLayout']_vars

\* The stream of SetFormData("name", "value").
C8_Witness ==
    stream = <<[type |-> "string",
                string |-> BoundaryLine
                    \o <<"Content-Disposition: form-data; name=", DQUOTE,
                         "n", "a", "m", "e", DQUOTE, CR, LF, CR, LF,
                         "v", "a", "l", "u", "e", CR, LF>>],
               [type |-> "string", string |-> ClosingText]>>

FileLayout ==
    \A key \in FileKeys :
        LET attachment == file_attachments_[key] IN
            Cardinality({ i \in 1..(Len(stream) - 2) :
                /\ IsString(stream[i],
                            FileHeaderText(key, attachment.filename,
                                           attachment.content_type))
                /\ IsFile(stream[i + 1], attachment.path)
                /\ IsString(stream[i + 2], <<CR, LF>>) }) = 1

\* C9: for every attachment held, GetBodyStream emits three consecutive
\* segments: the header text
\* `--{boundary}\r\nContent-Disposition: form-data; name="{escaped key}"; filename="{escaped file name}"\r\nContent-Type: {content type}\r\n\r\n`,
\* a file segment holding the attachment's path, and the text `\r\n`; the file
\* name is escaped once, when it is stored, and the path is stored as given.
C9_AttachmentLayout ==
    [][ /\ GetBodyStream => FileLayout'
        /\ SetterReturned =>
           \A key \in Keys, upload_file_name \in UploadFileNames,
              path \in Paths, content_type \in ContentTypes :
               SetFileAttachment(key, upload_file_name, path, content_type)
                   => /\ file_attachments_'[key].filename = EscapedText(upload_file_name)
                      /\ file_attachments_'[key].path = path ]_vars

\* A stream of one attachment whose file name had a percent to escape.
C9_Witness ==
    /\ Len(stream) = 4
    /\ \E key \in Keys, path \in Paths :
           /\ IsString(stream[1],
                  FileHeaderText(key,
                      <<"%", "2", "5", "0", "d", "%", "2", "5", "0", "a",
                        "%", "2", "5", "2", "2", "%", "2", "5", "2", "5">>,
                      ApplicationOctetStream))
           /\ IsFile(stream[2], path)
           /\ IsString(stream[3], <<CR, LF>>)

\* C10: a setter called with a key leaves the field and the attachment stored
\* under every other key, and the boundary, as they were.
C10_SetterFrame ==
    [][ /\ \A key \in Keys, value \in Values :
               SetFormData(key, value)
                   => /\ boundary_' = boundary_
                      /\ \A k \in Keys \ {key} : Entry(k)' = Entry(k)
        /\ \A key \in Keys, upload_file_name \in UploadFileNames,
              path \in Paths, content_type \in ContentTypes :
               (/\ SetFileAttachment(key, upload_file_name, path, content_type)
                /\ ~terminated')
                   => /\ boundary_' = boundary_
                      /\ \A k \in Keys \ {key} : Entry(k)' = Entry(k) ]_vars

=============================================================================
